---- MODULE Spec2Model ----
(***************************************************************************)
(* Two per-key rate limiters:                                              *)
(*   SlidingWindowRateLimiter (task_01.py) and                             *)
(*   ThrottlingRateLimiter    (Task_02.py).                                *)
(* Each file is a program of its own that constructs one limiter, so a     *)
(* run drives one of the two classes (subject).                            *)
(* Time is time.time() measured in whole ticks; the clock never runs       *)
(* backwards.  user_requests and user_last_message_time are Python dicts:  *)
(* functions whose DOMAIN is the set of keys present.                      *)
(***************************************************************************)
EXTENDS Integers, Sequences, FiniteSets, TLC

\* ------------------------------------------------------------------ bounds
MaxTime == 5
MaxBlocked == 2
MaxAccepted == 3

\* configurations tried at construction
Keys == {"A", "B"}
WindowSizes == {2, 3}
RequestLimits == {1, 2}
Intervals == {2, 3}

\* the constructors' default parameters
Default_window_size == 10
Default_max_requests == 1
Default_min_interval == 10

VARIABLES
  now,                      \* the value time.time() returns
  subject,                  \* "sw": task_01.py runs, "th": Task_02.py runs
  window_size,              \* SlidingWindowRateLimiter.window_size
  max_requests,             \* SlidingWindowRateLimiter.max_requests
  user_requests,            \* SlidingWindowRateLimiter.user_requests
  blocked_requests,         \* SlidingWindowRateLimiter.blocked_requests
  min_interval,             \* ThrottlingRateLimiter.min_interval
  user_last_message_time,   \* ThrottlingRateLimiter.user_last_message_time
  ret,                      \* the last call made at the current instant and what it returned
  sw_accepted,              \* history: per key, the times in (now - window_size, now] of
                            \*   sliding-window records that returned True
  th_accepted,              \* history: per key, the times of throttling records that returned True
  rejected,                 \* history: number of sliding-window records that returned False
  fail_at,                  \* history: per key, the time of the first record that returned
                            \*   False since the key's last accepted record (-1: none)
  last_wait,                \* history: key, time and result of the last
                            \*   time_until_next_allowed made for a key since its fail_at
  user_requests2,           \* a second run, compared with the first: its user_requests,
  blocked_requests2,        \*   blocked_requests,
  user_last_message_time2,  \*   user_last_message_time
  ret2,                     \*   and the result of its last call
  calls,                    \* concurrent callers: each thread's position in record_message
                            \*   (pc), its locals (current_time; seen: the value it last
                            \*   read from the limiter) and what its call returned (res)
  pair                      \* concurrent callers: the key of the two calls, and the
                            \*   admission slots left and the time when they began

config == <<subject, window_size, max_requests, min_interval>>
history == <<sw_accepted, th_accepted, rejected, fail_at, last_wait>>
second_run == <<user_requests2, blocked_requests2, user_last_message_time2, ret2>>
threads == <<calls, pair>>

vars == <<now, config, user_requests, blocked_requests, user_last_message_time, ret,
          history, second_run, threads>>

\* ----------------------------------------------------------------- helpers
max(a, b) == IF a >= b THEN a ELSE b

\* del d[key]
dict_del(d, key) == [k \in DOMAIN d \ {key} |-> d[k]]

\* d[key] = v
dict_set(d, key, v) == [k \in DOMAIN d \cup {key} |-> IF k = key THEN v ELSE d[k]]

EmptyDict == [k \in {} |-> 0]

\* ------------------------------------------------ SlidingWindowRateLimiter
\* an expiry test that keeps a timestamp exactly window_size old: < instead of <=
RECURSIVE popleft_expired_strict(_, _)
popleft_expired_strict(q, limit) ==
  IF q # <<>> /\ Head(q) < limit
    THEN popleft_expired_strict(Tail(q), limit)
    ELSE q

\* the while loop of _cleanup_window: popleft while the oldest entry is expired
RECURSIVE popleft_expired(_, _)
popleft_expired(q, limit) ==
  IF q # <<>> /\ Head(q) <= limit
    THEN popleft_expired(Tail(q), limit)
    ELSE q

\* a cleanup that drops the key's whole deque once its oldest entry has expired
cleanup_window_drops_all(ur, user_id, current_time) ==
  IF user_id \in DOMAIN ur
    THEN IF ur[user_id] = <<>> \/ Head(ur[user_id]) <= current_time - window_size
           THEN dict_del(ur, user_id)
           ELSE ur
    ELSE ur

\* a cleanup that leaves the emptied deque in the dict: no del
cleanup_window_keeps_empty(ur, user_id, current_time) ==
  IF user_id \in DOMAIN ur
    THEN [ur EXCEPT ![user_id] = popleft_expired(ur[user_id], current_time - window_size)]
    ELSE ur

\* a cleanup that pops at most one expired timestamp: if instead of while
cleanup_window_pops_once(ur, user_id, current_time) ==
  IF user_id \in DOMAIN ur
    THEN LET d == ur[user_id]
             q == IF d # <<>> /\ Head(d) <= current_time - window_size THEN Tail(d) ELSE d
         IN  IF q = <<>> THEN dict_del(ur, user_id)
                         ELSE [ur EXCEPT ![user_id] = q]
    ELSE ur

\* _cleanup_window(user_id, current_time): the dict afterwards
cleanup_window(ur, user_id, current_time) ==
  IF user_id \in DOMAIN ur
    THEN LET q == popleft_expired(ur[user_id], current_time - window_size)
         IN  IF q = <<>> THEN dict_del(ur, user_id)
                         ELSE [ur EXCEPT ![user_id] = q]
    ELSE ur

\* an admission test that counts the timestamps of every key
RECURSIVE total_len(_, _)
total_len(ur, ks) ==
  IF ks = {} THEN 0
  ELSE LET k == CHOOSE x \in ks : TRUE
       IN  Len(ur[k]) + total_len(ur, ks \ {k})

sw_admits_all_keys(ur, user_id) ==
  user_id \notin DOMAIN ur \/ total_len(ur, DOMAIN ur) < max_requests

\* an admission test that is off by one: <= instead of <
sw_admits_off_by_one(ur, user_id) ==
  user_id \notin DOMAIN ur \/ Len(ur[user_id]) <= max_requests

\* the test of can_send_message / time_until_next_allowed on a cleaned dict
sw_admits(ur, user_id) ==
  user_id \notin DOMAIN ur \/ Len(ur[user_id]) < max_requests

\* can_send_message(user_id, current_time): the dict afterwards and the result
sw_can_send_message(ur, user_id, current_time) ==
  LET c == cleanup_window(ur, user_id, current_time)
  IN  [ur |-> c, ok |-> sw_admits(c, user_id)]

\* a record_message that forgets to count the request it blocks
sw_record_message_uncounted(ur, blocked, user_id, current_time) ==
  LET c == sw_can_send_message(ur, user_id, current_time)
  IN  IF c.ok
        THEN LET q == IF user_id \in DOMAIN c.ur THEN c.ur[user_id] ELSE <<>>
             IN  [ur |-> dict_set(c.ur, user_id, Append(q, current_time)),
                  blocked |-> blocked, ok |-> TRUE]
        ELSE [ur |-> c.ur, blocked |-> blocked, ok |-> FALSE]

\* a record_message that puts the new timestamp at the front: appendleft
sw_record_message_prepends(ur, blocked, user_id, current_time) ==
  LET c == sw_can_send_message(ur, user_id, current_time)
  IN  IF c.ok
        THEN LET q == IF user_id \in DOMAIN c.ur THEN c.ur[user_id] ELSE <<>>
             IN  [ur |-> dict_set(c.ur, user_id, <<current_time>> \o q),
                  blocked |-> blocked, ok |-> TRUE]
        ELSE [ur |-> c.ur, blocked |-> blocked + 1, ok |-> FALSE]

\* record_message(user_id) with time.time() = current_time
sw_record_message(ur, blocked, user_id, current_time) ==
  LET c == sw_can_send_message(ur, user_id, current_time)
  IN  IF c.ok
        THEN LET q == IF user_id \in DOMAIN c.ur THEN c.ur[user_id] ELSE <<>>
             IN  [ur |-> dict_set(c.ur, user_id, Append(q, current_time)),
                  blocked |-> blocked, ok |-> TRUE]
        ELSE [ur |-> c.ur, blocked |-> blocked + 1, ok |-> FALSE]

\* a time_until_next_allowed that waits for the newest timestamp, not the oldest
sw_time_until_next_allowed_newest(ur, user_id, current_time) ==
  LET c == cleanup_window(ur, user_id, current_time)
  IN  [ur |-> c,
       wait |-> IF sw_admits(c, user_id)
                  THEN 0
                  ELSE max(0, c[user_id][Len(c[user_id])] + window_size - current_time)]

\* a time_until_next_allowed that returns the whole window, not what is left of it
sw_time_until_next_allowed_whole(ur, user_id, current_time) ==
  LET c == cleanup_window(ur, user_id, current_time)
  IN  [ur |-> c,
       wait |-> IF sw_admits(c, user_id) THEN 0 ELSE max(0, window_size)]

\* time_until_next_allowed(user_id) with time.time() = current_time
sw_time_until_next_allowed(ur, user_id, current_time) ==
  LET c == cleanup_window(ur, user_id, current_time)
  IN  [ur |-> c,
       wait |-> IF sw_admits(c, user_id)
                  THEN 0
                  ELSE max(0, Head(c[user_id]) + window_size - current_time)]

\* --------------------------------------------------- ThrottlingRateLimiter
\* user_last_message_time.get(user_id, 0)
last_message_time(lm, user_id) ==
  IF user_id \in DOMAIN lm THEN lm[user_id] ELSE 0

\* can_send_message(user_id) with time.time() = current_time
th_can_send_message(lm, user_id, current_time) ==
  (current_time - last_message_time(lm, user_id)) >= min_interval

\* a record_message that stores the time of a rejected call as well
th_record_message_always_stores(lm, user_id, current_time) ==
  [lm |-> dict_set(lm, user_id, current_time),
   ok |-> (current_time - last_message_time(lm, user_id)) >= min_interval]

\* a record_message whose interval test excludes the boundary: > instead of >=
th_record_message_strict(lm, user_id, current_time) ==
  IF (current_time - last_message_time(lm, user_id)) > min_interval
    THEN [lm |-> dict_set(lm, user_id, current_time), ok |-> TRUE]
    ELSE [lm |-> lm, ok |-> FALSE]

\* a record_message whose interval test is one tick short
th_record_message_short(lm, user_id, current_time) ==
  IF (current_time - last_message_time(lm, user_id)) >= min_interval - 1
    THEN [lm |-> dict_set(lm, user_id, current_time), ok |-> TRUE]
    ELSE [lm |-> lm, ok |-> FALSE]

\* record_message(user_id) with time.time() = current_time
th_record_message(lm, user_id, current_time) ==
  IF (current_time - last_message_time(lm, user_id)) >= min_interval
    THEN [lm |-> dict_set(lm, user_id, current_time), ok |-> TRUE]
    ELSE [lm |-> lm, ok |-> FALSE]

\* a time_until_next_allowed without the max(0.0, ...)
th_time_until_next_allowed_signed(lm, user_id, current_time) ==
  min_interval - (current_time - last_message_time(lm, user_id))

\* time_until_next_allowed(user_id) with time.time() = current_time
th_time_until_next_allowed(lm, user_id, current_time) ==
  max(0, min_interval - (current_time - last_message_time(lm, user_id)))

\* ------------------------------------------------------------ construction
Threads == {1, 2}

NoCall == [lim |-> "none", op |-> "none", key |-> "none",
           ok |-> FALSE, wait |-> 0, fresh |-> FALSE]

\* what a call returned: ok for can_send_message / record_message, wait for
\* time_until_next_allowed; fresh: the key had no entry when the call began
Call(lim, op, key, ok, wait, fresh) ==
  [lim |-> lim, op |-> op, key |-> key,
   ok |-> ok, wait |-> wait, fresh |-> fresh]

NoWait == [key |-> "none", t |-> -1, wait |-> -1]
Idle == [pc |-> "idle", current_time |-> 0, seen |-> 0, res |-> "none"]
NoPair == [key |-> "none", slots |-> 0, t0 |-> 0]

\* __init__ of the class that runs, its parameters drawn from the given sets
Construct(subjects, ws, mr, mi) ==
  /\ now = 0
  /\ subject \in subjects
  /\ window_size \in ws
  /\ max_requests \in mr
  /\ user_requests = EmptyDict
  /\ blocked_requests = 0
  /\ min_interval \in mi
  /\ user_last_message_time = EmptyDict
  /\ ret = NoCall
  /\ sw_accepted = [k \in Keys |-> <<>>]
  /\ th_accepted = [k \in Keys |-> <<>>]
  /\ rejected = 0
  /\ fail_at = [k \in Keys |-> -1]
  /\ last_wait = NoWait
  /\ user_requests2 = EmptyDict
  /\ blocked_requests2 = 0
  /\ user_last_message_time2 = EmptyDict
  /\ ret2 = NoCall
  /\ calls = [t \in Threads |-> Idle]
  /\ pair = NoPair

\* the class that does not run keeps its default parameters' place
Init ==
  \/ Construct({"sw"}, WindowSizes, RequestLimits, {Default_min_interval})
  \/ Construct({"th"}, {Default_window_size}, {Default_max_requests}, Intervals)

\* ------------------------------------------------------------- operations
\* the accepted times that lie in the trailing window (t - window_size, t]
in_window(times, t) == SelectSeq(times, LAMBDA x : x > t - window_size /\ x <= t)

\* the histories after record_message(k) returned ok
on_record(k, ok) ==
  /\ fail_at' = [fail_at EXCEPT ![k] = IF ok THEN -1 ELSE IF @ = -1 THEN now ELSE @]
  /\ last_wait' = IF ok /\ last_wait.key = k THEN NoWait ELSE last_wait

\* the histories after time_until_next_allowed(k) returned w
on_wait(k, w) ==
  /\ last_wait' = IF fail_at[k] # -1 THEN [key |-> k, t |-> now, wait |-> w]
                                      ELSE last_wait
  /\ UNCHANGED fail_at

SWCanSend(k) ==
  LET r == sw_can_send_message(user_requests, k, now)
  IN  /\ subject = "sw"
      /\ user_requests' = r.ur
      /\ ret' = Call("sw", "can", k, r.ok, 0, k \notin DOMAIN user_requests)
      /\ UNCHANGED <<now, config, blocked_requests, user_last_message_time,
                     history, second_run, threads>>

SWRecord(k) ==
  LET r == sw_record_message(user_requests, blocked_requests, k, now)
  IN  /\ subject = "sw"
      /\ r.ok \/ blocked_requests < MaxBlocked
      /\ r.ok => Len(sw_accepted[k]) < MaxAccepted
      /\ user_requests' = r.ur
      /\ blocked_requests' = r.blocked
      /\ ret' = Call("sw", "rec", k, r.ok, 0, k \notin DOMAIN user_requests)
      /\ sw_accepted' = IF r.ok THEN [sw_accepted EXCEPT ![k] = Append(@, now)]
                                ELSE sw_accepted
      /\ rejected' = IF r.ok THEN rejected ELSE rejected + 1
      /\ on_record(k, r.ok)
      /\ UNCHANGED <<now, config, user_last_message_time, th_accepted,
                     second_run, threads>>

SWTimeUntil(k) ==
  LET r == sw_time_until_next_allowed(user_requests, k, now)
  IN  /\ subject = "sw"
      /\ user_requests' = r.ur
      /\ ret' = Call("sw", "wait", k, r.wait = 0, r.wait, k \notin DOMAIN user_requests)
      /\ on_wait(k, r.wait)
      /\ UNCHANGED <<now, config, blocked_requests, user_last_message_time,
                     sw_accepted, th_accepted, rejected, second_run, threads>>

THCanSend(k) ==
  /\ subject = "th"
  /\ ret' = Call("th", "can", k, th_can_send_message(user_last_message_time, k, now),
                 0, k \notin DOMAIN user_last_message_time)
  /\ UNCHANGED <<now, config, user_requests, blocked_requests, user_last_message_time,
                 history, second_run, threads>>

THRecord(k) ==
  LET r == th_record_message(user_last_message_time, k, now)
  IN  /\ subject = "th"
      /\ r.ok => Len(th_accepted[k]) < MaxAccepted
      /\ user_last_message_time' = r.lm
      /\ ret' = Call("th", "rec", k, r.ok, 0, k \notin DOMAIN user_last_message_time)
      /\ th_accepted' = IF r.ok THEN [th_accepted EXCEPT ![k] = Append(@, now)]
                                ELSE th_accepted
      /\ on_record(k, r.ok)
      /\ UNCHANGED <<now, config, user_requests, blocked_requests,
                     sw_accepted, rejected, second_run, threads>>

THTimeUntil(k) ==
  LET w == th_time_until_next_allowed(user_last_message_time, k, now)
  IN  /\ subject = "th"
      /\ ret' = Call("th", "wait", k, w = 0, w, k \notin DOMAIN user_last_message_time)
      /\ on_wait(k, w)
      /\ UNCHANGED <<now, config, user_requests, blocked_requests, user_last_message_time,
                     sw_accepted, th_accepted, rejected, second_run, threads>>

\* the clock advances between calls
Tick ==
  /\ now < MaxTime
  /\ now' = now + 1
  /\ ret' = NoCall
  /\ sw_accepted' = [k \in Keys |-> in_window(sw_accepted[k], now + 1)]
  /\ UNCHANGED <<config, user_requests, blocked_requests, user_last_message_time,
                 th_accepted, rejected, fail_at, last_wait, second_run, threads>>

\* one caller, one call at a time
Next ==
  \/ \E k \in Keys : SWCanSend(k)
  \/ \E k \in Keys : SWRecord(k)
  \/ \E k \in Keys : SWTimeUntil(k)
  \/ \E k \in Keys : THCanSend(k)
  \/ \E k \in Keys : THRecord(k)
  \/ \E k \in Keys : THTimeUntil(k)
  \/ Tick

Spec == Init /\ [][Next]_vars

\* ------------------------------------------- construction, unchecked
\* __init__ stores whatever it is given
UncheckedSizes == {-1, 0, 2}
UncheckedLimits == {0, 1}
UncheckedIntervals == {-1, 0, 2}

InitCfg ==
  \/ Construct({"sw"}, UncheckedSizes, UncheckedLimits, {Default_min_interval})
  \/ Construct({"th"}, {Default_window_size}, {Default_max_requests}, UncheckedIntervals)

SpecCfg == InitCfg /\ [][Next]_vars

\* ------------------------------------------------- two runs, side by side
\* The first run makes any calls for any keys; the second run makes the first run's
\* calls for key A, at the same times, and no other call.  Two runs that both agree
\* with that second run about A agree with each other.
\* one call of the sliding-window limiter's interface: the state afterwards and
\* what the call returned
sw_call(op, ur, blocked, k, t) ==
  IF op = "can"
    THEN LET r == sw_can_send_message(ur, k, t)
         IN  [ur |-> r.ur, blocked |-> blocked,
              ret |-> Call("sw", "can", k, r.ok, 0, k \notin DOMAIN ur)]
  ELSE IF op = "rec"
    THEN LET r == sw_record_message(ur, blocked, k, t)
         IN  [ur |-> r.ur, blocked |-> r.blocked,
              ret |-> Call("sw", "rec", k, r.ok, 0, k \notin DOMAIN ur)]
    ELSE LET r == sw_time_until_next_allowed(ur, k, t)
         IN  [ur |-> r.ur, blocked |-> blocked,
              ret |-> Call("sw", "wait", k, r.wait = 0, r.wait, k \notin DOMAIN ur)]

\* one call of the throttling limiter's interface
th_call(op, lm, k, t) ==
  IF op = "can"
    THEN [lm |-> lm,
          ret |-> Call("th", "can", k, th_can_send_message(lm, k, t), 0, k \notin DOMAIN lm)]
  ELSE IF op = "rec"
    THEN LET r == th_record_message(lm, k, t)
         IN  [lm |-> r.lm, ret |-> Call("th", "rec", k, r.ok, 0, k \notin DOMAIN lm)]
    ELSE LET w == th_time_until_next_allowed(lm, k, t)
         IN  [lm |-> lm, ret |-> Call("th", "wait", k, w = 0, w, k \notin DOMAIN lm)]

Ops == {"can", "rec", "wait"}
KeyA == "A"

\* both runs make the same call for key A at the same time
IsoSWCallA(op) ==
  LET r1 == sw_call(op, user_requests, blocked_requests, KeyA, now)
      r2 == sw_call(op, user_requests2, blocked_requests2, KeyA, now)
  IN  /\ subject = "sw"
      /\ r1.blocked <= MaxBlocked /\ r2.blocked <= MaxBlocked
      /\ user_requests' = r1.ur /\ blocked_requests' = r1.blocked /\ ret' = r1.ret
      /\ user_requests2' = r2.ur /\ blocked_requests2' = r2.blocked /\ ret2' = r2.ret
      /\ UNCHANGED <<now, config, user_last_message_time, user_last_message_time2,
                     history, threads>>

\* the first run alone makes a call for another key
IsoSWCallB1(op, b) ==
  LET r1 == sw_call(op, user_requests, blocked_requests, b, now)
  IN  /\ subject = "sw"
      /\ r1.blocked <= MaxBlocked
      /\ user_requests' = r1.ur /\ blocked_requests' = r1.blocked
      /\ UNCHANGED <<now, config, user_last_message_time, ret, history,
                     second_run, threads>>

IsoTHCallA(op) ==
  LET r1 == th_call(op, user_last_message_time, KeyA, now)
      r2 == th_call(op, user_last_message_time2, KeyA, now)
  IN  /\ subject = "th"
      /\ user_last_message_time' = r1.lm /\ ret' = r1.ret
      /\ user_last_message_time2' = r2.lm /\ ret2' = r2.ret
      /\ UNCHANGED <<now, config, user_requests, blocked_requests, history,
                     user_requests2, blocked_requests2, threads>>

IsoTHCallB1(op, b) ==
  LET r1 == th_call(op, user_last_message_time, b, now)
  IN  /\ subject = "th"
      /\ user_last_message_time' = r1.lm
      /\ UNCHANGED <<now, config, user_requests, blocked_requests, ret, history,
                     second_run, threads>>

IsoTick ==
  /\ now < MaxTime
  /\ now' = now + 1
  /\ ret' = NoCall /\ ret2' = NoCall
  /\ UNCHANGED <<config, user_requests, blocked_requests, user_last_message_time,
                 history, user_requests2, blocked_requests2,
                 user_last_message_time2, threads>>

NextIso ==
  \/ \E op \in Ops : IsoSWCallA(op)
  \/ \E op \in Ops, b \in Keys \ {KeyA} : IsoSWCallB1(op, b)
  \/ \E op \in Ops : IsoTHCallA(op)
  \/ \E op \in Ops, b \in Keys \ {KeyA} : IsoTHCallB1(op, b)
  \/ IsoTick

SpecIso == Init /\ [][NextIso]_vars

\* ------------------------------------------------------ concurrent callers
\* Two threads call record_message for the same key (A) on one limiter; the class takes
\* no lock, so the calls interleave statement by statement.  A step is one statement
\* of record_message; the call to can_send_message (cleanup and test) is one step.

\* the timestamps of key k that have not expired at time t
unexpired(ur, k, t) ==
  IF k \in DOMAIN ur THEN SelectSeq(ur[k], LAMBDA x : x > t - window_size) ELSE <<>>

\* the records for k that the limiter's policy still admits at time now
free_slots(k) ==
  IF subject = "sw"
    THEN max_requests - Len(unexpired(user_requests, k, now))
    ELSE IF k \notin DOMAIN user_last_message_time
            \/ now - user_last_message_time[k] >= min_interval
           THEN 1 ELSE 0

at(t, pc) == calls[t].pc = pc
goto(t, pc) == calls' = [calls EXCEPT ![t].pc = pc]

\* both threads enter record_message(k)
ConcStart(k) ==
  /\ \A t \in Threads : at(t, "idle")
  /\ blocked_requests < MaxBlocked
  /\ pair' = [key |-> k, slots |-> free_slots(k), t0 |-> now]
  /\ calls' = [t \in Threads |-> [Idle EXCEPT !.pc = "read"]]
  /\ UNCHANGED <<now, config, user_requests, blocked_requests, user_last_message_time,
                 ret, history, second_run>>

\* current_time = time.time()
ConcRead(t) ==
  /\ at(t, "read")
  /\ calls' = [calls EXCEPT ![t].current_time = now,
                            ![t].pc = IF subject = "sw" THEN "check" ELSE "get"]
  /\ UNCHANGED <<now, config, user_requests, blocked_requests, user_last_message_time,
                 ret, history, second_run, pair>>

\* if self.can_send_message(user_id, current_time):
SWCheck(t) ==
  LET c == sw_can_send_message(user_requests, pair.key, calls[t].current_time)
  IN  /\ at(t, "check")
      /\ user_requests' = c.ur
      /\ goto(t, IF c.ok THEN "create" ELSE "load")
      /\ UNCHANGED <<now, config, blocked_requests, user_last_message_time,
                     ret, history, second_run, pair>>

\* if user_id not in self.user_requests: self.user_requests[user_id] = deque()
SWCreate(t) ==
  /\ at(t, "create")
  /\ user_requests' = IF pair.key \in DOMAIN user_requests
                        THEN user_requests
                        ELSE dict_set(user_requests, pair.key, <<>>)
  /\ goto(t, "append")
  /\ UNCHANGED <<now, config, blocked_requests, user_last_message_time,
                 ret, history, second_run, pair>>

\* self.user_requests[user_id].append(current_time); return True
\* (KeyError when the other thread's cleanup deleted the empty deque meanwhile)
SWAppend(t) ==
  /\ at(t, "append")
  /\ IF pair.key \in DOMAIN user_requests
       THEN /\ user_requests' = [user_requests EXCEPT
                                   ![pair.key] = Append(@, calls[t].current_time)]
            /\ calls' = [calls EXCEPT ![t].pc = "done", ![t].res = "true"]
       ELSE /\ UNCHANGED user_requests
            /\ calls' = [calls EXCEPT ![t].pc = "done", ![t].res = "KeyError"]
  /\ UNCHANGED <<now, config, blocked_requests, user_last_message_time,
                 ret, history, second_run, pair>>

\* self.blocked_requests += 1: the read
SWLoad(t) ==
  /\ at(t, "load")
  /\ calls' = [calls EXCEPT ![t].seen = blocked_requests, ![t].pc = "store"]
  /\ UNCHANGED <<now, config, user_requests, blocked_requests, user_last_message_time,
                 ret, history, second_run, pair>>

\* self.blocked_requests += 1: the write; return False
SWStore(t) ==
  /\ at(t, "store")
  /\ blocked_requests' = calls[t].seen + 1
  /\ calls' = [calls EXCEPT ![t].pc = "done", ![t].res = "false"]
  /\ UNCHANGED <<now, config, user_requests, user_last_message_time,
                 ret, history, second_run, pair>>

\* last_message_time = self.user_last_message_time.get(user_id, 0)
THGet(t) ==
  /\ at(t, "get")
  /\ calls' = [calls EXCEPT ![t].seen = last_message_time(user_last_message_time, pair.key),
                            ![t].pc = "act"]
  /\ UNCHANGED <<now, config, user_requests, blocked_requests, user_last_message_time,
                 ret, history, second_run, pair>>

\* if (current_time - last_message_time) >= self.min_interval: store, return True
THAct(t) ==
  /\ at(t, "act")
  /\ IF (calls[t].current_time - calls[t].seen) >= min_interval
       THEN /\ user_last_message_time' =
                 dict_set(user_last_message_time, pair.key, calls[t].current_time)
            /\ calls' = [calls EXCEPT ![t].pc = "done", ![t].res = "true"]
       ELSE /\ UNCHANGED user_last_message_time
            /\ calls' = [calls EXCEPT ![t].pc = "done", ![t].res = "false"]
  /\ UNCHANGED <<now, config, user_requests, blocked_requests,
                 ret, history, second_run, pair>>

\* both calls have returned
ConcReturn ==
  /\ \A t \in Threads : at(t, "done")
  /\ calls' = [t \in Threads |-> Idle]
  /\ pair' = NoPair
  /\ UNCHANGED <<now, config, user_requests, blocked_requests, user_last_message_time,
                 ret, history, second_run>>

ConcTick ==
  /\ now < MaxTime
  /\ now' = now + 1
  /\ UNCHANGED <<config, user_requests, blocked_requests, user_last_message_time,
                 ret, history, second_run, threads>>

NextConc ==
  \/ ConcStart(KeyA)
  \/ \E t \in Threads : ConcRead(t)
  \/ \E t \in Threads : SWCheck(t)
  \/ \E t \in Threads : SWCreate(t)
  \/ \E t \in Threads : SWAppend(t)
  \/ \E t \in Threads : SWLoad(t)
  \/ \E t \in Threads : SWStore(t)
  \/ \E t \in Threads : THGet(t)
  \/ \E t \in Threads : THAct(t)
  \/ ConcReturn
  \/ ConcTick

SpecConc == Init /\ [][NextConc]_vars

\* ------------------------------------------------------------------ claims
Returned(lim, op, k) == ret.lim = lim /\ ret.op = op /\ ret.key = k

\* C1: with max_requests = N >= 1, at every time T and for every key, at most N
\* record_message calls that returned True lie in the trailing window
\* (T - window_size, T] (sw_accepted holds exactly those, for T = now, and the clock
\* passes through every T).
C1_WindowLimit ==
  \A k \in Keys : Len(sw_accepted[k]) <= max_requests

\* the limit bites: N = 2 accepted records of different ages fill the window and a
\* third record has just been rejected
C1_Witness ==
  \E k \in Keys :
    /\ max_requests = 2
    /\ Len(sw_accepted[k]) = 2
    /\ sw_accepted[k][1] < sw_accepted[k][2]
    /\ sw_accepted[k][2] < now
    /\ Returned("sw", "rec", k) /\ ~ret.ok

\* C2: any two throttling record_message calls for one key that both returned True
\* are at least min_interval apart.
C2_MinInterval ==
  \A k \in Keys : \A i, j \in 1..Len(th_accepted[k]) :
    i < j => th_accepted[k][j] - th_accepted[k][i] >= min_interval

\* a key's second record has just been accepted
C2_Witness ==
  \E k \in Keys :
    /\ Len(th_accepted[k]) >= 2
    /\ Returned("th", "rec", k) /\ ret.ok

\* the entry of key k, <<>> standing for no entry
entry(ur, k) == IF k \in DOMAIN ur THEN ur[k] ELSE <<>>

\* this step is a can_send_message(k, now) of the sliding-window limiter
CanSendStep(k) == ret'.lim = "sw" /\ ret'.op = "can" /\ ret'.key = k

\* C5 as stated: can_send_message never changes the mapping or the blocked counter.
C5_Original ==
  [][\A k \in Keys : CanSendStep(k) =>
        /\ user_requests' = user_requests
        /\ blocked_requests' = blocked_requests]_vars

\* C5 as amended: can_send_message(k, now) changes nothing but the expired timestamps
\* of k, which it removes (and k with them once none is left): the blocked counter,
\* the other keys and the unexpired timestamps of k stay; and a call that follows a
\* can_send_message for the same key at the same time returns the same outcome and
\* changes nothing at all.
C5_CleanupOnly ==
  [][\A k \in Keys : CanSendStep(k) =>
        /\ blocked_requests' = blocked_requests
        /\ \A j \in Keys \ {k} :
             /\ (j \in DOMAIN user_requests') = (j \in DOMAIN user_requests)
             /\ entry(user_requests', j) = entry(user_requests, j)
        /\ entry(user_requests', k) = unexpired(user_requests, k, now)
        /\ (k \in DOMAIN user_requests') = (unexpired(user_requests, k, now) # <<>>)
        /\ Returned("sw", "can", k) =>
             /\ user_requests' = user_requests
             /\ ret'.ok = ret.ok]_vars

\* a can_send_message has just removed a key whose timestamps had all expired
C5_Witness ==
  \E k \in Keys :
    /\ Returned("sw", "can", k)
    /\ ~ret.fresh
    /\ k \notin DOMAIN user_requests

\* this step is a time_until_next_allowed(k) made after a record_message(k) failed,
\* with no record accepted for k since
WaitStep(lim, k) ==
  ret'.lim = lim /\ ret'.op = "wait" /\ ret'.key = k /\ fail_at[k] # -1

\* the last time_until_next_allowed before this one was for k too, at an earlier time
Earlier(k) == last_wait.key = k /\ last_wait.t < now

\* C6 as stated: after a record failed at t = fail_at[k], the wait strictly decreases
\* from call to call up to t + window_size, and is 0 from t + window_size on.
C6_Original ==
  [][\A k \in Keys : WaitStep("sw", k) =>
        /\ (Earlier(k) /\ now <= fail_at[k] + window_size) => ret'.wait < last_wait.wait
        /\ now >= fail_at[k] + window_size => ret'.wait = 0]_vars

\* C6 as amended: the wait strictly decreases while it is positive, stays 0 once it is
\* 0 (which may be before t + window_size), and is 0 from t + window_size on.
C6_Recovery ==
  [][\A k \in Keys : WaitStep("sw", k) =>
        /\ (Earlier(k) /\ last_wait.wait > 0) => ret'.wait < last_wait.wait
        /\ (last_wait.key = k /\ last_wait.wait = 0) => ret'.wait = 0
        /\ now >= fail_at[k] + window_size => ret'.wait = 0]_vars

\* a wait of 0 returned exactly at t + window_size, the call removing the key
C6_Witness ==
  \E k \in Keys :
    /\ fail_at[k] # -1
    /\ now = fail_at[k] + window_size
    /\ Returned("sw", "wait", k) /\ ret.wait = 0
    /\ k \notin DOMAIN user_requests

\* C7 as stated: the same for the throttling limiter and min_interval (here for a key
\* that has an entry, whose record failed because its last accepted record is recent).
C7_Original ==
  [][\A k \in Keys : (WaitStep("th", k) /\ k \in DOMAIN user_last_message_time) =>
        /\ (Earlier(k) /\ now <= fail_at[k] + min_interval) => ret'.wait < last_wait.wait
        /\ now >= fail_at[k] + min_interval => ret'.wait = 0]_vars

\* C7 as amended: the wait strictly decreases while it is positive, stays 0 once it is
\* 0 (which may be before t + min_interval), and is 0 from t + min_interval on.
C7_Recovery ==
  [][\A k \in Keys : WaitStep("th", k) =>
        /\ (Earlier(k) /\ last_wait.wait > 0) => ret'.wait < last_wait.wait
        /\ (last_wait.key = k /\ last_wait.wait = 0) => ret'.wait = 0
        /\ now >= fail_at[k] + min_interval => ret'.wait = 0]_vars

\* a wait of 0 returned exactly at t + min_interval, for a key that has an entry
C7_Witness ==
  \E k \in Keys :
    /\ fail_at[k] # -1
    /\ now = fail_at[k] + min_interval
    /\ Returned("th", "wait", k) /\ ret.wait = 0
    /\ k \in DOMAIN user_last_message_time

\* C8: blocked_requests is the number of record_message calls that returned False
\* since construction.
C8_BlockedCount ==
  blocked_requests = rejected

\* two records were rejected and a record has just been accepted
C8_Witness ==
  /\ blocked_requests = 2
  /\ ret.lim = "sw" /\ ret.op = "rec" /\ ret.ok

\* C10 as stated: for a key with no entry, can_send_message and record_message return
\* True and time_until_next_allowed returns 0, at every time.
C10_FreshKeyEligible ==
  ret.fresh =>
    /\ ret.op \in {"can", "rec"} => ret.ok
    /\ ret.op = "wait" => ret.wait = 0

\* C9 as stated: no record_message is ever answered by a limiter whose configuration
\* is not positive (its construction failed).
C9_InvalidConfigRejected ==
  /\ (ret.lim = "sw" /\ ret.op = "rec") => (window_size > 0 /\ max_requests > 0)
  /\ (ret.lim = "th" /\ ret.op = "rec") => min_interval > 0

\* C4: a run that makes any calls for other keys returns the same results for key A
\* and stores the same state for A as the run that makes its calls for A alone.
C4_KeyIsolation ==
  /\ ret = ret2
  /\ (KeyA \in DOMAIN user_requests) = (KeyA \in DOMAIN user_requests2)
  /\ entry(user_requests, KeyA) = entry(user_requests2, KeyA)
  /\ (KeyA \in DOMAIN user_last_message_time) = (KeyA \in DOMAIN user_last_message_time2)
  /\ last_message_time(user_last_message_time, KeyA)
       = last_message_time(user_last_message_time2, KeyA)

\* the runs differ on another key (the first holds it full, the second does not
\* hold it) and a record for A has just been rejected in both
C4_Witness ==
  \E b \in Keys \ {KeyA} :
    /\ b \in DOMAIN user_requests /\ Len(user_requests[b]) = max_requests
    /\ b \notin DOMAIN user_requests2
    /\ Returned("sw", "rec", KeyA) /\ ~ret.ok /\ ~ret2.ok

\* C3 as stated: when one admission slot is left as two concurrent record_message
\* calls for a key begin, and both read the clock at that time, at most one of them
\* returns True.
C3_OneSlotOneAdmission ==
  ( /\ \A t \in Threads : at(t, "done") /\ calls[t].current_time = pair.t0
    /\ pair.slots = 1 )
  => ~ \A t \in Threads : calls[t].res = "true"

\* this step is a record_message(k) of the given limiter
RecStep(lim, k) == ret'.lim = lim /\ ret'.op = "rec" /\ ret'.key = k

\* the time of the last record accepted for k before the call that has just returned
accepted_before(k) ==
  LET acc == th_accepted[k]
  IN  IF ret.ok THEN acc[Len(acc) - 1] ELSE acc[Len(acc)]

\* C11: after a throttling record_message(k) was accepted at t0, a record_message(k)
\* at t returns False while t0 <= t < t0 + min_interval and True at t = t0 +
\* min_interval (and later), when no record was accepted in between.
C11_InclusiveBoundary ==
  \A k \in Keys :
    (Returned("th", "rec", k) /\ ~ret.fresh) =>
      (ret.ok <=> now >= accepted_before(k) + min_interval)

\* a record accepted exactly min_interval after the key's last accepted record
C11_Witness ==
  \E k \in Keys :
    /\ Returned("th", "rec", k) /\ ~ret.fresh /\ ret.ok
    /\ now = accepted_before(k) + min_interval

\* what time_until_next_allowed(k) has to return, from the accepted records that lie
\* in the trailing window
expected_wait(k) ==
  LET acc == sw_accepted[k]
  IN  IF Len(acc) < max_requests THEN 0 ELSE max(0, acc[1] + window_size - now)

\* the scenario of window_size = 10, max_requests = 1: record("1") at 0 is accepted,
\* at 5 it fails with a wait of 5, at 11 it is accepted
scenario_10_1 ==
  LET r0 == sw_record_message(EmptyDict, 0, "1", 0)
      r5 == sw_record_message(r0.ur, r0.blocked, "1", 5)
      w5 == sw_time_until_next_allowed(r5.ur, "1", 5)
      r11 == sw_record_message(w5.ur, r5.blocked, "1", 11)
  IN  r0.ok /\ ~r5.ok /\ w5.wait = 5 /\ r11.ok

\* C12: time_until_next_allowed(k) at time now returns 0 when fewer than max_requests
\* accepted records of k are unexpired, and otherwise the oldest of them +
\* window_size - now (never below 0); and the scenario above.
C12_WaitTime ==
  /\ \A k \in Keys : Returned("sw", "wait", k) => ret.wait = expected_wait(k)
  /\ (window_size = 10 /\ max_requests = 1) => scenario_10_1

\* a positive wait returned for a key whose two counted records differ in age
C12_Witness ==
  \E k \in Keys :
    /\ Returned("sw", "wait", k) /\ ret.wait > 0
    /\ max_requests = 2
    /\ sw_accepted[k][1] < sw_accepted[k][2]

\* this step is a call of the sliding-window limiter for k (each of them cleans up)
SWStep(k) == ret'.lim = "sw" /\ ret'.key = k

\* C13: cleanup at time now removes a stored timestamp ts exactly when
\* ts <= now - window_size; and with max_requests = 1 a record is accepted exactly
\* when no accepted record of the key lies in (now - window_size, now], so that
\* after an accepted record at t0 a record at t0 + window_size is accepted and one at
\* t0 <= t < t0 + window_size is rejected.
C13_HalfOpenExpiry ==
  [][\A k \in Keys :
       /\ SWStep(k) =>
            entry(user_requests', k) =
              unexpired(user_requests, k, now)
                \o (IF ret'.op = "rec" /\ ret'.ok THEN <<now>> ELSE <<>>)
       /\ (RecStep("sw", k) /\ max_requests = 1) =>
            (ret'.ok <=> sw_accepted[k] = <<>>)]_vars

\* with max_requests = 1 and a record accepted at 0, the record at exactly
\* window_size has just been accepted
C13_Witness ==
  \E k \in Keys :
    /\ max_requests = 1
    /\ now = window_size
    /\ Returned("sw", "rec", k) /\ ret.ok /\ ~ret.fresh

\* a call of the sliding-window limiter for k has just returned at the current time
SWReturned(k) == ret.lim = "sw" /\ ret.key = k

\* C14: between operations no key of user_requests is mapped to an empty deque, and
\* after a call that cleaned up key k at time now the key is in the mapping only if
\* one of its timestamps has not expired.
C14_NoEmptyEntry ==
  /\ \A k \in DOMAIN user_requests : user_requests[k] # <<>>
  /\ \A k \in Keys :
       (SWReturned(k) /\ k \in DOMAIN user_requests) =>
         \E i \in 1..Len(user_requests[k]) : user_requests[k][i] > now - window_size

\* time_until_next_allowed found the key in the mapping and cleanup removed it
C14_Witness ==
  \E k \in Keys :
    Returned("sw", "wait", k) /\ ~ret.fresh /\ k \notin DOMAIN user_requests

\* C15: with a non-decreasing clock every key's deque is in ascending order, oldest
\* timestamp first.
C15_SortedAscending ==
  \A k \in DOMAIN user_requests :
    \A i, j \in 1..Len(user_requests[k]) :
      i < j => user_requests[k][i] <= user_requests[k][j]

\* a deque that holds two timestamps of different times
C15_Witness ==
  \E k \in DOMAIN user_requests :
    /\ Len(user_requests[k]) = 2
    /\ user_requests[k][1] < user_requests[k][2]

\* C16: right after a call that cleaned up key k at time now, every timestamp ts
\* still stored for k satisfies now - window_size < ts <= now.
C16_NoExpiredLeft ==
  \A k \in Keys :
    (SWReturned(k) /\ k \in DOMAIN user_requests) =>
      \A i \in 1..Len(user_requests[k]) :
        /\ now - window_size < user_requests[k][i]
        /\ user_requests[k][i] <= now

\* a key that was full when a record failed holds one timestamp after a later
\* cleanup: the loop popped the expired one and stopped at the one still counted
C16_Witness ==
  \E k \in Keys :
    /\ max_requests = 2
    /\ fail_at[k] # -1
    /\ Returned("sw", "wait", k)
    /\ k \in DOMAIN user_requests /\ Len(user_requests[k]) = 1

\* C17: a record_message that returns False stores nothing: the throttling limiter
\* keeps its whole mapping; the sliding-window limiter keeps every other key's
\* deque, keeps of the key's deque exactly the unexpired timestamps, adds one to
\* blocked_requests, and the wait until the key is admitted is what it was.
C17_RejectedStoresNothing ==
  [][\A k \in Keys :
       /\ (RecStep("th", k) /\ ~ret'.ok) =>
            /\ user_last_message_time' = user_last_message_time
            /\ th_time_until_next_allowed(user_last_message_time', k, now)
                 = th_time_until_next_allowed(user_last_message_time, k, now)
       /\ (RecStep("sw", k) /\ ~ret'.ok) =>
            /\ \A j \in Keys :
                 entry(user_requests', j) =
                   IF j = k THEN unexpired(user_requests, k, now)
                            ELSE entry(user_requests, j)
            /\ blocked_requests' = blocked_requests + 1
            /\ sw_time_until_next_allowed(user_requests', k, now).wait
                 = sw_time_until_next_allowed(user_requests, k, now).wait]_vars

\* a throttling record rejected later than the key's last accepted record, whose
\* time is still the stored one
C17_Witness ==
  \E k \in DOMAIN user_last_message_time :
    /\ Returned("th", "rec", k) /\ ~ret.ok
    /\ user_last_message_time[k] < now

\* C18: with max_requests >= 1 no key's deque is longer than max_requests.
C18_LengthBound ==
  max_requests >= 1 =>
    \A k \in DOMAIN user_requests : Len(user_requests[k]) <= max_requests

\* a record has just been rejected for a key whose deque holds max_requests = 2
\* timestamps
C18_Witness ==
  \E k \in DOMAIN user_requests :
    /\ max_requests = 2
    /\ Len(user_requests[k]) = max_requests
    /\ Returned("sw", "rec", k) /\ ~ret.ok

\* C19: at every time and for every key, in both limiters, time_until_next_allowed
\* is 0 exactly when can_send_message is True, which is exactly when a
\* record_message would be accepted; the wait of a blocked key is positive.
C19_WaitAgreesWithAdmission ==
  \A k \in Keys :
    LET sw_wait == sw_time_until_next_allowed(user_requests, k, now).wait
        sw_ok == sw_can_send_message(user_requests, k, now).ok
        th_wait == th_time_until_next_allowed(user_last_message_time, k, now)
        th_ok == th_can_send_message(user_last_message_time, k, now)
    IN  /\ sw_wait = 0 <=> sw_ok
        /\ sw_ok <=> sw_record_message(user_requests, blocked_requests, k, now).ok
        /\ ~sw_ok => sw_wait > 0
        /\ th_wait = 0 <=> th_ok
        /\ th_ok <=> th_record_message(user_last_message_time, k, now).ok
        /\ ~th_ok => th_wait > 0

\* can_send_message has just returned False for a key that has one tick left to wait
C19_Witness ==
  \E k \in Keys :
    /\ Returned("sw", "can", k) /\ ~ret.ok
    /\ sw_time_until_next_allowed(user_requests, k, now).wait = 1

\* the limiter of a retrying caller: positive parameters
LiveSizes == {2}

InitLive ==
  \/ Construct({"sw"}, LiveSizes, RequestLimits, {Default_min_interval})
  \/ Construct({"th"}, {Default_window_size}, {Default_max_requests}, LiveSizes)

\* the caller of key A makes every call; the other key's records come in between
NextLive ==
  \/ \E k \in Keys : SWRecord(k)
  \/ \E k \in Keys : THRecord(k)
  \/ SWCanSend(KeyA)
  \/ SWTimeUntil(KeyA)
  \/ THCanSend(KeyA)
  \/ THTimeUntil(KeyA)
  \/ Tick

\* the clock keeps advancing and the caller of key A keeps retrying record_message;
\* nothing is assumed of the other key's calls
Retrying ==
  /\ WF_vars(Tick)
  /\ WF_vars(SWRecord(KeyA) \/ THRecord(KeyA))

SpecLive == InitLive /\ [][NextLive]_vars /\ Retrying

\* the time a blocked key has to wait at most
reach == IF subject = "sw" THEN window_size ELSE min_interval

\* C20: a record_message(k) made at a time >= the oldest stored timestamp of k +
\* window_size (sliding-window) or >= the last accepted time of k + min_interval
\* (throttling) returns True; and when record_message failed for the key that is
\* retried, at a time that leaves the clock room to advance by window_size
\* (min_interval), a record_message of that key is accepted later, whatever is
\* recorded for the other key and however many retries are rejected.
C20_NotBlockedForever ==
  /\ [][\A k \in Keys :
          /\ (RecStep("sw", k) /\ k \in DOMAIN user_requests
                /\ now >= Head(user_requests[k]) + window_size) => ret'.ok
          /\ (RecStep("th", k) /\ k \in DOMAIN user_last_message_time
                /\ now >= user_last_message_time[k] + min_interval) => ret'.ok]_vars
  /\ (fail_at[KeyA] # -1 /\ now + reach <= MaxTime) ~> (fail_at[KeyA] = -1)

\* a retry of a key whose record_message had failed has just been accepted
C20_Witness ==
  /\ ret.op = "rec" /\ ret.key = KeyA /\ ret.ok /\ ~ret.fresh
  /\ rejected > 0
  /\ \A k \in Keys : fail_at[k] = -1

====
